---------------------------- MODULE Spec2Model ----------------------------
(***************************************************************************)
(* AudioVibe playback core: AudioEngine (sink + synthetic clock) and       *)
(* AudioManager (current track + FIFO queue).                              *)
(*                                                                         *)
(* Fixed point: every f32 of the source (volume, speed, seek position) is  *)
(* held in hundredths, so 1.0 is 100, 0.25 is 25 and 1.5 is 150. Instants  *)
(* and Durations are whole seconds counted by the wall clock `now`.        *)
(* Option<T> is a sequence: None is << >>, Some(v) is <<v>>.               *)
(***************************************************************************)
EXTENDS Integers, Sequences, FiniteSets, TLC

VARIABLES
    state,            \* AudioEngine.state: PlaybackState
    current_file,     \* AudioEngine.current_file: Option<String>
    sinkEmpty,        \* rodio Sink: sink.empty()
    sinkPaused,       \* rodio Sink: paused by sink.pause(), resumed by sink.play()
    volume,           \* AudioEngine.volume (hundredths)
    speed,            \* AudioEngine.speed (hundredths)
    start_time,       \* AudioEngine.start_time: Option<Instant>
    pause_time,       \* AudioEngine.pause_time: Option<Instant>
    paused_duration,  \* AudioEngine.paused_duration: Duration
    seek_offset,      \* AudioEngine.seek_offset: u64 seconds
    current_track,    \* AudioManager.current_track: Option<Track>
    queue,            \* AudioManager.queue: VecDeque<Track>
    player,           \* AudioPlayer's own clock fields (player.rs)
    now,              \* the wall clock read by Instant::now()
    ret,              \* the value returned by the most recent call
    log,              \* the caller's record of its most recent calls
    pc,               \* where each thread of a dispatch layer stands
    AUDIO_SENDER,     \* lib.rs: OnceLock<mpsc::Sender<AudioCommand>>
    receiver,         \* lib.rs: the commands waiting in the mpsc channel
    sent,             \* every command in the order sender.send enqueued it
    applied,          \* every command in the order the audio thread applied it
    responses,        \* lib.rs: what each caller's response channel holds
    spawned,          \* audio threads started by thread::spawn
    managers,         \* AudioManager values created by AudioManager::new
    ranOn,            \* the threads on which a manager operation has run
    AUDIO_COMMAND_MUTEX,   \* lib_clean.rs: the thread holding the global mutex
    PRIMARY_AUDIO_THREAD,  \* lib_clean.rs: OnceLock<ThreadId>
    AUDIO_MANAGER,    \* lib_clean.rs: per thread, whether its thread-local holds a manager
    loadPc,           \* load_file: where the caller stands in the confirmation loop
    loadPath,         \* load_file: its argument `path`
    attempts,         \* load_file: the local `attempts`
    polls,            \* how often the running load_file has read sink.empty() in the loop
    held,             \* the engine's field mutexes: the thread holding each
    script            \* per thread, the lock and unlock steps its operation has still to take

engineVars == <<state, current_file, sinkEmpty, sinkPaused, volume, speed,
                start_time, pause_time, paused_duration, seek_offset>>
clockVars == <<start_time, pause_time, paused_duration, seek_offset>>
managerVars == <<current_track, queue>>
channelVars == <<AUDIO_SENDER, receiver, sent, applied, responses, spawned>>
threadLocalVars == <<AUDIO_COMMAND_MUTEX, PRIMARY_AUDIO_THREAD, AUDIO_MANAGER>>
loadVars == <<loadPc, loadPath, attempts, polls>>
lockVars == <<held, script>>
stepVars == <<loadVars, lockVars>>
gateVars == <<pc, managers, ranOn, channelVars, threadLocalVars>>
dispatchVars == <<gateVars, stepVars>>
vars == <<state, current_file, sinkEmpty, sinkPaused, volume, speed,
          start_time, pause_time, paused_duration, seek_offset,
          current_track, queue, player, now, ret, log,
          pc, AUDIO_SENDER, receiver, sent, applied, responses, spawned,
          managers, ranOn, AUDIO_COMMAND_MUTEX, PRIMARY_AUDIO_THREAD,
          AUDIO_MANAGER, loadPc, loadPath, attempts, polls, held, script>>

----------------------------------------------------------------------------
(* Bounds of the model *)

MaxTime == 4
MaxQueue == 3
MaxLog == 5

(* Program constants (hundredths) *)

MinVolume == 0
MaxVolume == 100
MinSpeed == 25
MaxSpeed == 400

----------------------------------------------------------------------------
(* Values *)

None == << >>
Some(v) == <<v>>

PlaybackState == {"Stopped", "Playing", "Paused"}

\* the threads that call into a dispatch layer, and the audio thread
Callers == {"t1", "t2"}
\* the Mutex fields of AudioEngine
Mutexes == {"sink", "current_file", "current_audio_info", "state", "volume",
            "speed", "start_time", "pause_time", "paused_duration",
            "seek_offset", "last_speed_change", "speed_adjusted_duration"}
AudioThread == "audio"
Threads == Callers \cup {AudioThread}

TrackA == [id |-> "A", file_path |-> "a.mp3"]
TrackB == [id |-> "B", file_path |-> "b.m4b"]
Tracks == {TrackA, TrackB}

\* inputs of set_volume: 0.5, 1.5 and -0.5
VolumeInputs == {50, 150, -50}
\* inputs of set_speed: 2.0, 5.0 and 0.1
SpeedInputs == {200, 500, 10}
\* inputs of seek: -1.0 and 1.5 seconds
SeekInputs == {-100, 150}

\* what File::open, Decoder::try_from and the sink's fill make of a load
LoadOutcomes == {"ok", "open_err", "decode_err", "timeout"}
\* what sink.try_seek answers
TrySeekOutcomes == {"ok", "not_supported", "other_err"}
\* what the reload of the fallback seek meets
FallbackOutcomes == {"ok", "open_err", "decode_err", "timeout", "resume_empty"}

----------------------------------------------------------------------------
(* Pure functions *)

\* f32::clamp
Clamp(v, lo, hi) == IF v < lo THEN lo ELSE IF v > hi THEN hi ELSE v

\* Duration::saturating_sub, Instant::duration_since
SatSub(a, b) == IF a > b THEN a - b ELSE 0

\* `x as u64` of a non-negative f32 held in hundredths
AsU64(x) == x \div 100

\* f32::max(0.0)
Max0(x) == IF x < 0 THEN 0 ELSE x

\* a position that measures against now even while paused
Position_IgnoresPause(st, pt, pd, off, spd, t) ==
    IF st # None
    THEN off + AsU64(SatSub(SatSub(t, st[1]), pd) * spd)
    ELSE off

\* AudioEngine::get_position, as a function of the clock, the speed and now
Position(st, pt, pd, off, spd, t) ==
    IF st # None
    THEN LET started_at == st[1]
             elapsed == IF pt # None THEN SatSub(pt[1], started_at)
                                     ELSE SatSub(t, started_at)
             active_time == SatSub(elapsed, pd)
             speed_adjusted_time == AsU64(active_time * spd)
         IN  off + speed_adjusted_time
    ELSE off

get_position ==
    Position(start_time, pause_time, paused_duration, seek_offset, speed, now)

\* AudioEngine::get_status
get_status == [state |-> state, position |-> get_position, volume |-> volume,
               speed |-> speed, current_file |-> current_file]

\* AudioPlayer::get_position
PlayerPosition(p, t) ==
    IF p.start_time # None
    THEN LET started_at == p.start_time[1]
             elapsed == IF p.pause_time # None
                        THEN SatSub(p.pause_time[1], started_at)
                        ELSE SatSub(t, started_at)
         IN  SatSub(elapsed, p.paused_duration)
    ELSE 0

\* AudioPlayer::get_enhanced_status
get_enhanced_status == [get_status EXCEPT !.position = PlayerPosition(player, now)]

----------------------------------------------------------------------------
(* Construction *)

\* an engine created at half speed
EngineNew_HalfSpeed ==
    /\ state = "Stopped"
    /\ current_file = None
    /\ sinkEmpty = TRUE
    /\ sinkPaused = FALSE
    /\ volume = 100
    /\ speed = 50
    /\ start_time = None
    /\ pause_time = None
    /\ paused_duration = 0
    /\ seek_offset = 0

\* AudioEngine::new
EngineNew ==
    /\ state = "Stopped"
    /\ current_file = None
    /\ sinkEmpty = TRUE
    /\ sinkPaused = FALSE
    /\ volume = 100
    /\ speed = 100
    /\ start_time = None
    /\ pause_time = None
    /\ paused_duration = 0
    /\ seek_offset = 0

\* AudioManager::new
ManagerNew ==
    /\ EngineNew
    /\ current_track = None
    /\ queue = << >>

\* AudioPlayer::new
PlayerNew == [start_time |-> None, pause_time |-> None, paused_duration |-> 0]

\* lib.rs and lib_clean.rs at process start: no audio thread, no sender,
\* no manager, the statics unset
DispatchInit ==
    /\ pc = [t \in Threads |-> IF t = AudioThread THEN "unborn" ELSE "idle"]
    /\ AUDIO_SENDER = "unset"
    /\ receiver = << >>
    /\ sent = << >>
    /\ applied = << >>
    /\ responses = [t \in Callers |-> None]
    /\ spawned = 0
    /\ managers = 0
    /\ ranOn = {}
    /\ AUDIO_COMMAND_MUTEX = None
    /\ PRIMARY_AUDIO_THREAD = None
    /\ AUDIO_MANAGER = [t \in Callers |-> FALSE]
    /\ loadPc = "idle"
    /\ loadPath = ""
    /\ attempts = 0
    /\ polls = 0
    /\ held = [m \in Mutexes |-> "free"]
    /\ script = [t \in Callers |-> << >>]

Init ==
    /\ ManagerNew
    /\ player = PlayerNew
    /\ now = 0
    /\ ret = <<"new">>
    /\ log = << >>
    /\ DispatchInit

----------------------------------------------------------------------------
(* AudioEngine operations: each is the effect on the engine's fields *)

ClockReset ==
    /\ start_time' = None
    /\ pause_time' = None
    /\ paused_duration' = 0
    /\ seek_offset' = 0

\* a load that leaves the playback state as it was
LoadFile_KeepsState(path, outcome) ==
    IF outcome = "ok"
    THEN /\ sinkEmpty' = FALSE
         /\ current_file' = Some(path)
         /\ ClockReset
         /\ UNCHANGED <<state, sinkPaused, volume, speed>>
    ELSE /\ sinkEmpty' = TRUE
         /\ UNCHANGED <<state, current_file, sinkPaused, volume, speed, clockVars>>

\* AudioEngine::load_file
LoadFile(path, outcome) ==
    IF outcome = "ok"
    THEN /\ sinkEmpty' = FALSE
         /\ current_file' = Some(path)
         /\ state' = "Stopped"
         /\ ClockReset
         /\ UNCHANGED <<sinkPaused, volume, speed>>
    ELSE \* the sink was stopped and drained before the failure
         /\ sinkEmpty' = TRUE
         /\ UNCHANGED <<state, current_file, sinkPaused, volume, speed, clockVars>>


\* a play that gives up by stopping when it finds the sink empty
EnginePlay_StopsOnEmpty ==
    IF sinkEmpty
    THEN /\ state' = "Stopped"
         /\ ClockReset
         /\ UNCHANGED <<current_file, sinkEmpty, sinkPaused, volume, speed>>
    ELSE /\ sinkPaused' = FALSE
         /\ IF pause_time # None
            THEN /\ paused_duration' = paused_duration + (now - pause_time[1])
                 /\ pause_time' = None
            ELSE UNCHANGED <<paused_duration, pause_time>>
         /\ start_time' = IF start_time = None THEN Some(now) ELSE start_time
         /\ state' = "Playing"
         /\ UNCHANGED <<current_file, sinkEmpty, volume, speed, seek_offset>>

\* a play that forgets the time spent paused
EnginePlay_DropsPause ==
    IF sinkEmpty
    THEN UNCHANGED engineVars
    ELSE /\ sinkPaused' = FALSE
         /\ pause_time' = None
         /\ start_time' = IF start_time = None THEN Some(now) ELSE start_time
         /\ state' = "Playing"
         /\ UNCHANGED <<current_file, sinkEmpty, volume, speed, seek_offset,
                        paused_duration>>

\* AudioEngine::play
EnginePlay ==
    IF sinkEmpty
    THEN \* the retry 25 ms later finds the sink still empty
         UNCHANGED engineVars
    ELSE /\ sinkPaused' = FALSE
         /\ IF pause_time # None
            THEN /\ paused_duration' = paused_duration + (now - pause_time[1])
                 /\ pause_time' = None
            ELSE UNCHANGED <<paused_duration, pause_time>>
         /\ start_time' = IF start_time = None THEN Some(now) ELSE start_time
         /\ state' = "Playing"
         /\ UNCHANGED <<current_file, sinkEmpty, volume, speed, seek_offset>>

EnginePlayResult == IF sinkEmpty THEN <<"err", "No audio file loaded">> ELSE <<"ok">>

\* a pause that does not record when it happened
EnginePause_NoInstant ==
    /\ sinkPaused' = TRUE
    /\ state' = "Paused"
    /\ UNCHANGED <<current_file, sinkEmpty, volume, speed, start_time,
                   pause_time, paused_duration, seek_offset>>

\* AudioEngine::pause
EnginePause ==
    /\ sinkPaused' = TRUE
    /\ pause_time' = Some(now)
    /\ state' = "Paused"
    /\ UNCHANGED <<current_file, sinkEmpty, volume, speed, start_time,
                   paused_duration, seek_offset>>

\* a stop that resets state and clock but leaves the source in the sink
EngineStop_KeepsSource ==
    /\ ClockReset
    /\ state' = "Stopped"
    /\ UNCHANGED <<current_file, sinkEmpty, sinkPaused, volume, speed>>

\* a stop that forgets the seek baseline
EngineStop_KeepsOffset ==
    /\ sinkEmpty' = TRUE
    /\ start_time' = None
    /\ pause_time' = None
    /\ paused_duration' = 0
    /\ state' = "Stopped"
    /\ UNCHANGED <<current_file, sinkPaused, volume, speed, seek_offset>>

\* AudioEngine::stop
EngineStop ==
    /\ sinkEmpty' = TRUE
    /\ ClockReset
    /\ state' = "Stopped"
    /\ UNCHANGED <<current_file, sinkPaused, volume, speed>>

\* a rebase that keeps the old start instant
ClockRebase_KeepsStart(offset_seconds) ==
    /\ seek_offset' = offset_seconds
    /\ start_time' = IF start_time = None THEN Some(now) ELSE start_time
    /\ pause_time' = None
    /\ paused_duration' = 0

\* the clock update shared by the native seek and load_file_with_offset
ClockRebase(offset_seconds) ==
    /\ seek_offset' = offset_seconds
    /\ start_time' = Some(now)
    /\ pause_time' = None
    /\ paused_duration' = 0

\* AudioEngine::seek, the arm taken when sink.try_seek returns Ok
SeekNative(position_seconds) ==
    /\ ClockRebase(AsU64(position_seconds))
    /\ UNCHANGED <<state, current_file, sinkEmpty, sinkPaused, volume, speed>>

\* a fallback seek that starts playback whatever the state was
SeekFallback_AlwaysResumes(position_seconds, outcome) ==
    CASE outcome \in {"open_err", "decode_err"} ->
            /\ sinkEmpty' = TRUE
            /\ UNCHANGED <<state, current_file, sinkPaused, volume, speed, clockVars>>
      [] outcome = "timeout" ->
            /\ sinkEmpty' = TRUE
            /\ ClockRebase(AsU64(position_seconds))
            /\ UNCHANGED <<state, current_file, sinkPaused, volume, speed>>
      [] outcome = "resume_empty" ->
            /\ sinkEmpty' = TRUE
            /\ ClockRebase(AsU64(position_seconds))
            /\ state' = "Stopped"
            /\ UNCHANGED <<current_file, sinkPaused, volume, speed>>
      [] outcome = "ok" ->
            /\ sinkEmpty' = FALSE
            /\ ClockRebase(AsU64(position_seconds))
            /\ sinkPaused' = FALSE
            /\ state' = "Playing"
            /\ UNCHANGED <<current_file, volume, speed>>

\* AudioEngine::seek_fallback with load_file_with_offset
SeekFallback(position_seconds, outcome) ==
    LET was_playing == state = "Playing" IN
    CASE outcome \in {"open_err", "decode_err"} ->
            \* the sink is drained, then load_file_with_offset fails early
            /\ sinkEmpty' = TRUE
            /\ UNCHANGED <<state, current_file, sinkPaused, volume, speed, clockVars>>
      [] outcome = "timeout" ->
            \* the clock is rebased, but the sink never reports content
            /\ sinkEmpty' = TRUE
            /\ ClockRebase(AsU64(position_seconds))
            /\ UNCHANGED <<state, current_file, sinkPaused, volume, speed>>
      [] outcome = "resume_empty" ->
            \* the sink had content at the wait, none at the resume
            /\ sinkEmpty' = TRUE
            /\ ClockRebase(AsU64(position_seconds))
            /\ state' = "Stopped"
            /\ UNCHANGED <<current_file, sinkPaused, volume, speed>>
      [] outcome = "ok" ->
            /\ sinkEmpty' = FALSE
            /\ ClockRebase(AsU64(position_seconds))
            /\ IF was_playing
               THEN sinkPaused' = FALSE /\ state' = "Playing"
               ELSE UNCHANGED <<sinkPaused, state>>
            /\ UNCHANGED <<current_file, volume, speed>>

SeekFallbackResult(outcome) ==
    CASE outcome = "ok" -> <<"ok">>
      [] outcome = "open_err" -> <<"err", "Failed to open audio file">>
      [] outcome = "decode_err" -> <<"err", "Failed to decode audio file">>
      [] outcome = "timeout" -> <<"err", "Failed to load audio content after seek">>
      [] outcome = "resume_empty" -> <<"err", "Sink empty after loading, cannot resume playback">>

\* a seek that goes to the sink without asking whether a file is loaded
EngineSeek_NoFileCheck(p, native, fallback) ==
    LET position_seconds == Max0(p) IN
    IF native = "ok"
    THEN SeekNative(position_seconds)
    ELSE SeekFallback(position_seconds, fallback)

\* AudioEngine::seek
EngineSeek(p, native, fallback) ==
    LET position_seconds == Max0(p) IN
    IF current_file = None
    THEN UNCHANGED engineVars
    ELSE IF native = "ok"
         THEN SeekNative(position_seconds)
         ELSE SeekFallback(position_seconds, fallback)

EngineSeekResult(native, fallback) ==
    IF current_file = None
    THEN <<"err", "No audio file loaded to seek in">>
    ELSE IF native = "ok" THEN <<"ok">> ELSE SeekFallbackResult(fallback)

\* a set_volume that stores what it was given
EngineSetVolume_NoClamp(v) ==
    /\ volume' = v
    /\ UNCHANGED <<state, current_file, sinkEmpty, sinkPaused, speed, clockVars>>

\* AudioEngine::set_volume
EngineSetVolume(v) ==
    /\ volume' = Clamp(v, MinVolume, MaxVolume)
    /\ UNCHANGED <<state, current_file, sinkEmpty, sinkPaused, speed, clockVars>>

\* AudioEngine::set_speed
EngineSetSpeed(s) ==
    /\ speed' = Clamp(s, MinSpeed, MaxSpeed)
    /\ UNCHANGED <<state, current_file, sinkEmpty, sinkPaused, volume, clockVars>>

----------------------------------------------------------------------------
(* AudioManager operations *)

LoadResult(path, outcome) ==
    CASE outcome = "ok" -> <<"ok">>
      [] outcome = "open_err" -> <<"err", "Failed to open audio file">>
      [] outcome = "decode_err" -> <<"err", "Failed to decode audio file">>
      [] outcome = "timeout" -> <<"err", "Failed to load audio into sink">>

\* a play_track_immediately that leaves the queue alone
LoadTrack_KeepsQueue(track, outcome, q) ==
    /\ LoadFile(track.file_path, outcome)
    /\ queue' = q
    /\ IF outcome = "ok"
       THEN current_track' = Some(track)
       ELSE UNCHANGED current_track

\* the body of AudioManager::play_track_immediately, entered with the queue q
LoadTrack(track, outcome, q) ==
    /\ LoadFile(track.file_path, outcome)
    /\ IF outcome = "ok"
       THEN /\ current_track' = Some(track)
            /\ queue' = << >>
       ELSE \* load_file's error returns through `?`
            /\ queue' = q
            /\ UNCHANGED current_track

\* AudioManager::play_track_immediately
PlayTrackImmediately(track, outcome) ==
    /\ LoadTrack(track, outcome, queue)
    /\ ret' = LoadResult(track.file_path, outcome)
    /\ UNCHANGED <<player, now>>

\* AudioManager::play
Play ==
    /\ EnginePlay
    /\ ret' = EnginePlayResult
    /\ UNCHANGED <<managerVars, player, now>>

\* AudioManager::pause
Pause ==
    /\ EnginePause
    /\ ret' = <<"unit">>
    /\ UNCHANGED <<managerVars, player, now>>

\* AudioManager::stop
Stop ==
    /\ EngineStop
    /\ ret' = <<"unit">>
    /\ UNCHANGED <<managerVars, player, now>>

\* an add_to_queue that puts the track at the head
AddToQueue_PushFront(track) ==
    /\ Len(queue) < MaxQueue
    /\ queue' = <<track>> \o queue
    /\ ret' = <<"unit">>
    /\ UNCHANGED <<engineVars, current_track, player, now>>

\* AudioManager::add_to_queue
AddToQueue(track) ==
    /\ Len(queue) < MaxQueue
    /\ queue' = Append(queue, track)
    /\ ret' = <<"unit">>
    /\ UNCHANGED <<engineVars, current_track, player, now>>

\* a play_next that empties the queue when the load of the popped track fails
PlayNext_ClearsOnFailure(outcome) ==
    IF queue = << >>
    THEN /\ outcome = "ok"
         /\ ret' = <<"ok", "false">>
         /\ UNCHANGED <<engineVars, managerVars, player, now>>
    ELSE /\ LoadTrack(Head(queue), outcome, << >>)
         /\ ret' = IF outcome = "ok" THEN <<"ok", "true">>
                   ELSE LoadResult(Head(queue).file_path, outcome)
         /\ UNCHANGED <<player, now>>

\* AudioManager::play_next
PlayNext(outcome) ==
    IF queue = << >>
    THEN /\ outcome = "ok"
         /\ ret' = <<"ok", "false">>
         /\ UNCHANGED <<engineVars, managerVars, player, now>>
    ELSE /\ LoadTrack(Head(queue), outcome, Tail(queue))
         /\ ret' = IF outcome = "ok" THEN <<"ok", "true">>
                   ELSE LoadResult(Head(queue).file_path, outcome)
         /\ UNCHANGED <<player, now>>

\* AudioManager::get_status
GetStatus ==
    /\ ret' = <<"status", get_status>>
    /\ UNCHANGED <<engineVars, managerVars, player, now>>

\* AudioManager::get_queue
GetQueue ==
    /\ ret' = <<"queue", queue>>
    /\ UNCHANGED <<engineVars, managerVars, player, now>>

\* AudioManager::clear_queue
ClearQueue ==
    /\ queue' = << >>
    /\ ret' = <<"unit">>
    /\ UNCHANGED <<engineVars, current_track, player, now>>

\* AudioManager::seek
Seek(p, native, fallback) ==
    /\ EngineSeek(p, native, fallback)
    /\ ret' = EngineSeekResult(native, fallback)
    /\ UNCHANGED <<managerVars, player, now>>

\* AudioManager::set_volume
SetVolume(v) ==
    /\ EngineSetVolume(v)
    /\ ret' = <<"unit">>
    /\ UNCHANGED <<managerVars, player, now>>

\* AudioManager::set_speed
SetSpeed(s) ==
    /\ EngineSetSpeed(s)
    /\ ret' = <<"unit">>
    /\ UNCHANGED <<managerVars, player, now>>

\* AudioPlayer::get_enhanced_status on a player that was never driven
GetEnhancedStatus ==
    /\ ret' = <<"status", get_enhanced_status>>
    /\ UNCHANGED <<engineVars, managerVars, player, now>>

----------------------------------------------------------------------------
(* Environment *)

\* one second of wall-clock time passes
Tick ==
    /\ now < MaxTime
    /\ now' = now + 1
    /\ UNCHANGED <<engineVars, managerVars, player, ret, log, dispatchVars>>

\* the sink plays the appended source to its end
SourceEnds ==
    /\ ~sinkEmpty
    /\ ~sinkPaused
    /\ sinkEmpty' = TRUE
    /\ UNCHANGED <<state, current_file, sinkPaused, volume, speed, clockVars,
                   managerVars, player, now, ret, log, dispatchVars>>

----------------------------------------------------------------------------
(* The caller's record: the last `window` calls, each with the operation,  *)
(* its track or numeric argument, what try_seek answered, the value        *)
(* returned, and current_file and get_position() read as the call returns  *)

Entry(op, track, num, native) ==
    [op |-> op, track |-> track, num |-> num, native |-> native, ret |-> ret',
     file |-> current_file',
     pos |-> Position(start_time', pause_time', paused_duration',
                      seek_offset', speed', now')]

LastN(s, n) == IF Len(s) <= n THEN s ELSE SubSeq(s, Len(s) - n + 1, Len(s))

\* the call is made on the manager directly, with no dispatch layer between
Logged(op, track, num, native, window) ==
    /\ log' = LastN(Append(log, Entry(op, track, num, native)), window)
    /\ UNCHANGED dispatchVars

Last == log[Len(log)]
LastOp == IF log = << >> THEN "none" ELSE Last.op
Called(op) == LastOp = op
Ok == <<"ok">>

\* a step of the environment: the clock moves, or the sink runs empty by itself
EnvStep == now' # now \/ (sinkEmpty' # sinkEmpty /\ ret' = ret /\ UNCHANGED log)
\* the step is a call of op
CallStep(op) == Called(op)' /\ ~EnvStep

----------------------------------------------------------------------------
(* The calls of the manager's interface *)

PlayTrackImmediatelyCall(w) ==
    \E t \in Tracks, o \in LoadOutcomes :
        PlayTrackImmediately(t, o) /\ Logged("play_track_immediately", t.id, 0, "", w)
PlayCall(w) == Play /\ Logged("play", "", 0, "", w)
PauseCall(w) == Pause /\ Logged("pause", "", 0, "", w)
StopCall(w) == Stop /\ Logged("stop", "", 0, "", w)
SeekCall(w) ==
    \E p \in SeekInputs, n \in TrySeekOutcomes, f \in FallbackOutcomes :
        /\ n = "ok" => f = "ok"
        /\ f = "resume_empty" => state = "Playing"
        /\ Seek(p, n, f) /\ Logged("seek", "", p, n, w)
SetSpeedCall(w) == \E s \in SpeedInputs : SetSpeed(s) /\ Logged("set_speed", "", s, "", w)
SetVolumeCall(w) == \E v \in VolumeInputs : SetVolume(v) /\ Logged("set_volume", "", v, "", w)
GetStatusCall(w) == GetStatus /\ Logged("get_status", "", 0, "", w)
GetEnhancedStatusCall(w) ==
    GetEnhancedStatus /\ Logged("get_enhanced_status", "", 0, "", w)
AddToQueueCall(w) ==
    \E t \in Tracks : AddToQueue(t) /\ Logged("add_to_queue", t.id, 0, "", w)
PlayNextCall(w) ==
    \E o \in LoadOutcomes : PlayNext(o) /\ Logged("play_next", "", 0, "", w)
GetQueueCall(w) == GetQueue /\ Logged("get_queue", "", 0, "", w)
ClearQueueCall(w) == ClearQueue /\ Logged("clear_queue", "", 0, "", w)

----------------------------------------------------------------------------
(* Spec: one caller drives the engine through the manager's playback       *)
(* interface (load, play, pause, stop, seek, speed, status) while time     *)
(* passes and the sink plays; the queue is not used.                       *)

Next ==
    \/ PlayTrackImmediatelyCall(1)
    \/ PlayCall(1)
    \/ PauseCall(1)
    \/ StopCall(1)
    \/ SeekCall(1)
    \/ SetSpeedCall(1)
    \/ GetStatusCall(1)
    \/ GetEnhancedStatusCall(1)
    \/ GetQueueCall(1)
    \/ Tick
    \/ SourceEnds

Spec == Init /\ [][Next]_vars

----------------------------------------------------------------------------
(* Properties of Spec *)

\* C3: stop(), called in any reachable state, leaves state Stopped,
\* get_position() at 0 (as it returns and for as long as nothing else is
\* called) and start_time, pause_time, paused_duration, seek_offset at zero.
C3_StopResetsEverything ==
    Called("stop") =>
        /\ state = "Stopped"
        /\ Last.pos = 0
        /\ get_position = 0
        /\ start_time = None
        /\ pause_time = None
        /\ paused_duration = 0
        /\ seek_offset = 0

\* a stop issued on an engine that holds a file and runs at a changed speed,
\* seen some seconds later
C3_Witness ==
    /\ Called("stop")
    /\ current_file # None
    /\ speed # 100
    /\ now >= 2

\* C4: after a successful load (play_track_immediately returning Ok), from
\* any prior state, state is Stopped, get_position() is 0, the clock
\* quadruple is zero and current_file is the loaded track's path.
C4_LoadResets ==
    \A t \in Tracks :
        (Called("play_track_immediately") /\ Last.ret = Ok /\ Last.track = t.id) =>
            /\ state = "Stopped"
            /\ Last.pos = 0
            /\ get_position = 0
            /\ start_time = None
            /\ pause_time = None
            /\ paused_duration = 0
            /\ seek_offset = 0
            /\ current_file = Some(t.file_path)

\* track B loaded with success at a time when the clock has run
C4_Witness ==
    /\ Called("play_track_immediately")
    /\ Last.ret = Ok
    /\ Last.track = TrackB.id
    /\ current_file = Some(TrackB.file_path)
    /\ now >= 2
    /\ speed # 100

\* C5: a successful seek(p), p >= 0 (a negative p counts as 0), followed at
\* once by get_position() gives p truncated to whole seconds, on the native
\* path and on the reload path alike.
C5_SeekThenPosition ==
    (Called("seek") /\ Last.ret = Ok) =>
        Last.pos = (IF Last.num < 0 THEN 0 ELSE Last.num) \div 100

\* seek(1.5) taken through the reload path while Playing, after time has run
C5_Witness ==
    /\ Called("seek")
    /\ Last.ret = Ok
    /\ Last.num = 150
    /\ Last.native = "not_supported"
    /\ Last.pos = 1
    /\ state = "Playing"
    /\ now >= 2

\* seek(1.5) taken through the native path while Paused
C5_WitnessNative ==
    /\ Called("seek")
    /\ Last.ret = Ok
    /\ Last.num = 150
    /\ Last.native = "ok"
    /\ state = "Paused"

\* C7: set_speed applies prospectively only: get_position() is the same
\* just after set_speed returns as just before it was called, so the time
\* already played is not rescaled by the new speed.
C7_SpeedChangeKeepsPosition ==
    [][CallStep("set_speed") => get_position' = get_position]_vars

\* C10: a freshly created engine, and a freshly created AudioPlayer wrapper,
\* report state Stopped, position 0, volume 1.0, speed 1.0 and no current
\* file; a read-only query (get_status, get_enhanced_status, get_queue)
\* changes nothing of the engine, the manager or the player, and get_status
\* returns exactly the snapshot of the fields.
FreshStatus == [state |-> "Stopped", position |-> 0, volume |-> 100,
                speed |-> 100, current_file |-> None]

ReadOnlyStep ==
    \/ CallStep("get_status")
    \/ CallStep("get_enhanced_status")
    \/ CallStep("get_queue")

C10_FreshSnapshot ==
    /\ get_status = FreshStatus
    /\ get_enhanced_status = FreshStatus
    /\ [][ReadOnlyStep =>
            /\ UNCHANGED <<engineVars, managerVars, player>>
            /\ get_status' = get_status
            /\ get_enhanced_status' = get_enhanced_status
            /\ CallStep("get_status") => ret' = <<"status", get_status>>]_vars

\* get_status asked of an engine that was never loaded, some seconds after
\* its creation, answers with the fresh snapshot
C10_Witness ==
    /\ Called("get_status")
    /\ current_file = None
    /\ now >= 2
    /\ ret = <<"status", FreshStatus>>

\* C11: synthetic-clock invariant: in every state reachable by load, play,
\* pause, stop, seek and set_speed, state Playing implies pause_time is None
\* and state Paused implies pause_time is Some.
C11_ClockInvariant ==
    /\ state = "Playing" => pause_time = None
    /\ state = "Paused" => pause_time # None

\* a step on which get_position() may move although the state stays Paused
\* or Stopped: the seek itself, a load, a stop
RepositioningStep ==
    \/ CallStep("seek")
    \/ CallStep("play_track_immediately")
    \/ CallStep("stop")

\* C12: across any sequence of engine operations and any passage of time,
\* get_position() never decreases on a step that stays in Playing, a seek
\* apart, and does not change on a step that stays in Paused or in Stopped
\* (time passing after a seek issued there, or a set_speed, included).
C12_PositionMonotoneAllOps ==
    [][/\ (state = "Playing" /\ state' = "Playing" /\ ~CallStep("seek"))
              => get_position' >= get_position
       /\ (state \in {"Paused", "Stopped"} /\ state' = state /\ ~RepositioningStep)
              => get_position' = get_position]_vars

\* the fallback seek has begun and returned an error
FallbackFailed ==
    /\ Called("seek")
    /\ Last.ret[1] = "err"
    /\ Last.file # None

\* C13: whenever the reload-based fallback seek returns an error after it
\* has begun (reopen or decode failure, the sink-fill wait expiring, the
\* sink empty at resume), the engine ends in state Stopped with the clock
\* zeroed, never Playing or Paused with a drained sink.
C13_FallbackErrorStops ==
    FallbackFailed =>
        /\ state = "Stopped"
        /\ start_time = None
        /\ pause_time = None
        /\ paused_duration = 0
        /\ seek_offset = 0

\* C18: seek(p) on an engine with no file loaded returns an error and
\* changes nothing: sink, state and all clock fields are as before the call;
\* with a file loaded a negative p is not rejected but taken as 0.
C18_SeekWithoutFile ==
    /\ []((Called("seek") /\ Last.num < 0 /\ Last.ret = Ok) =>
              (seek_offset = 0 /\ Last.pos = 0))
    /\ []((Called("seek") /\ Last.num < 0 /\ Last.native = "ok") =>
              (Last.ret = Ok <=> Last.file # None))
    /\ [][(CallStep("seek") /\ current_file = None) =>
              /\ ret' = <<"err", "No audio file loaded to seek in">>
              /\ UNCHANGED engineVars]_vars

\* seek(1.5) refused on a Paused engine that never loaded a file, its
\* pause instant still in place some seconds later
C18_Witness ==
    /\ Called("seek")
    /\ Last.num = 150
    /\ Last.native = "ok"
    /\ Last.ret = <<"err", "No audio file loaded to seek in">>
    /\ current_file = None
    /\ state = "Paused"
    /\ pause_time = Some(0)
    /\ now >= 2

\* seek(-1.0) accepted on a loaded engine and taken as 0
C18_WitnessNegative ==
    /\ Called("seek")
    /\ Last.num = -100
    /\ Last.ret = Ok
    /\ seek_offset = 0
    /\ state = "Playing"
    /\ now >= 1

\* C20: in every reachable state get_position() is
\* seek_offset + floor(speed * (T - start_time - paused_duration)), T being
\* pause_time if set and the current time otherwise, the subtraction
\* saturating at zero; with start_time unset it is seek_offset.
C20_PositionFormula ==
    LET T == IF pause_time # None THEN pause_time[1] ELSE now
        d == IF start_time # None THEN T - start_time[1] - paused_duration ELSE 0
    IN  get_position = seek_offset + (IF d > 0 THEN (speed * d) \div 100 ELSE 0)

\* paused at a changed speed after a seek and an earlier pause that lasted,
\* with time gone by since the pause
C20_Witness ==
    /\ state = "Paused"
    /\ pause_time # None
    /\ start_time # None
    /\ now > pause_time[1]
    /\ paused_duration >= 1
    /\ seek_offset = 1
    /\ speed = 200
    /\ get_position = 3

\* the subtraction saturates: the time spent paused exceeds the time since
\* start_time
C20_WitnessSaturating ==
    /\ start_time # None
    /\ pause_time = None
    /\ now - start_time[1] < paused_duration

\* C21: a successful seek(p) leaves the state as it was on both paths. On
\* the native path only the clock baseline moves (seek_offset = p,
\* start_time = now, pause bookkeeping cleared); on the fallback path an
\* engine that was Playing plays again after the reload and an engine that
\* was not Playing is not started.
C21_SeekKeepsState ==
    [][(CallStep("seek") /\ ret' = Ok) =>
          /\ state' = state
          /\ seek_offset' = Max0(Last'.num) \div 100
          /\ start_time' = Some(now)
          /\ pause_time' = None
          /\ paused_duration' = 0
          /\ UNCHANGED <<current_file, volume, speed>>
          /\ IF Last'.native = "ok"
             THEN UNCHANGED <<sinkEmpty, sinkPaused>>
             ELSE /\ sinkEmpty' = FALSE
                  /\ IF state = "Playing"
                     THEN sinkPaused' = FALSE
                     ELSE sinkPaused' = sinkPaused]_vars

\* seek(1.5) through the reload path on a Paused engine, some seconds after
\* the pause: still Paused, sink still paused, baseline moved
C21_Witness ==
    /\ Called("seek")
    /\ Last.native = "not_supported"
    /\ Last.num = 150
    /\ Last.ret = Ok
    /\ state = "Paused"
    /\ sinkPaused
    /\ seek_offset = 1
    /\ start_time # None
    /\ start_time[1] >= 2

\* C26: after load_file returns an error (open failure, decode failure or
\* sink-fill timeout) the engine does not report state Playing: a load
\* that fails while a track was Playing does not leave the clock advancing
\* over a drained sink.
C26_FailedLoadNotPlaying ==
    (Called("play_track_immediately") /\ Last.ret[1] = "err") => state # "Playing"

\* C27: pause() is idempotent while Paused: a second pause(), whatever
\* time has passed in state Paused, leaves get_position() and pause_time
\* unchanged.
C27_PauseIdempotent ==
    [][(state = "Paused" /\ CallStep("pause")) =>
          /\ get_position' = get_position
          /\ pause_time' = pause_time]_vars

\* C28: in every reachable state, state Playing or Paused implies that a
\* file is loaded: pause() on a Stopped or never-loaded engine does not
\* move it to Paused.
C28_ActiveImpliesFile ==
    state \in {"Playing", "Paused"} => current_file # None

----------------------------------------------------------------------------
(* SpecPlayPause: an engine that holds a loaded file is driven by          *)
(* alternating play() and pause() calls alone, play() first, while time    *)
(* passes between the calls. No seek, stop, load or speed change, and the  *)
(* source does not run out.                                                *)

\* the states a successful load leaves, at any speed set before it
InitLoaded ==
    /\ \E t \in Tracks :
          /\ current_file = Some(t.file_path)
          /\ current_track = Some(t)
    /\ state = "Stopped"
    /\ sinkEmpty = FALSE
    /\ sinkPaused \in BOOLEAN
    /\ volume = 100
    /\ speed \in {100} \cup {Clamp(s, MinSpeed, MaxSpeed) : s \in SpeedInputs}
    /\ start_time = None
    /\ pause_time = None
    /\ paused_duration = 0
    /\ seek_offset = 0
    /\ queue = << >>
    /\ player = PlayerNew
    /\ now = 0
    /\ ret = Ok
    /\ log = << >>
    /\ DispatchInit

NextPlayPause ==
    \/ LastOp \in {"none", "pause"} /\ PlayCall(2)
    \/ LastOp = "play" /\ PauseCall(2)
    \/ Tick

SpecPlayPause == InitLoaded /\ [][NextPlayPause]_vars

C8_PausedTimeExcluded ==
    (/\ Len(log) = 2
     /\ log[1].op = "pause"
     /\ log[2].op = "play"
     /\ log[2].ret = Ok) => log[2].pos = log[1].pos

\* a resume at a non-zero position, after a second pause that lasted
C8_Witness ==
    /\ Len(log) = 2
    /\ log[1].op = "pause"
    /\ log[2].op = "play"
    /\ log[2].ret = Ok
    /\ log[1].pos >= 1
    /\ state = "Playing"
    /\ paused_duration >= 2
    /\ start_time # None
    /\ now - start_time[1] - paused_duration >= 1

----------------------------------------------------------------------------
(* SpecTransport: load, play, pause and stop with time passing and the     *)
(* source running out, the caller keeping its last two calls.              *)

NextTransport ==
    \/ PlayTrackImmediatelyCall(2)
    \/ PlayCall(2)
    \/ PauseCall(2)
    \/ StopCall(2)
    \/ Tick
    \/ SourceEnds

SpecTransport == Init /\ [][NextTransport]_vars

\* the last two calls were stop() and then play()
PlayAfterStop ==
    /\ Len(log) = 2
    /\ log[1].op = "stop"
    /\ log[2].op = "play"

\* C23: stop() drains the sink but keeps current_file, so a play() issued
\* after stop() with no load or seek in between fails with the
\* no-file-loaded error and the state stays Stopped with position 0, while
\* get_status() still reports the stopped file as current_file.
C23_PlayAfterStopFails ==
    PlayAfterStop =>
        /\ log[2].ret = <<"err", "No audio file loaded">>
        /\ log[2].pos = 0
        /\ log[2].file = log[1].file
        /\ state = "Stopped"
        /\ get_position = 0
        /\ get_status.current_file = log[1].file

\* a track that had played for some seconds was stopped, and a play() some
\* seconds later was refused with the file still reported
C23_Witness ==
    /\ PlayAfterStop
    /\ log[2].ret = <<"err", "No audio file loaded">>
    /\ get_status.current_file = Some(TrackB.file_path)
    /\ get_status.state = "Stopped"
    /\ get_status.position = 0
    /\ now >= 2

----------------------------------------------------------------------------
(* SpecQueue: one caller uses the queue (add, next, clear, read) together  *)
(* with immediate loads and play/pause/stop, all within one second.        *)

NextQueue ==
    \/ AddToQueueCall(2)
    \/ PlayNextCall(2)
    \/ PlayTrackImmediatelyCall(2)
    \/ ClearQueueCall(2)
    \/ GetQueueCall(2)
    \/ PlayCall(2)
    \/ PauseCall(2)
    \/ StopCall(2)
    \/ SourceEnds

SpecQueue == Init /\ [][NextQueue]_vars

\* C2 as amended: play_track_immediately(X) leaves the queue empty whenever
\* it returns Ok, whatever the queue held before; when the load fails it
\* returns the error and leaves the queue as it was.
C2_ImmediateClearsQueueOnSuccess ==
    /\ []((Called("play_track_immediately") /\ Last.ret = Ok) => queue = << >>)
    /\ [][CallStep("play_track_immediately") =>
             IF ret' = Ok THEN queue' = << >> ELSE queue' = queue]_vars

\* C2 as stated: the queue is empty whenever play_track_immediately has
\* returned, with Ok or with an error.
C2_ImmediateAlwaysClearsQueue ==
    Called("play_track_immediately") => queue = << >>

\* a track was queued, then play_track_immediately succeeded
C2_Witness ==
    /\ Len(log) = 2
    /\ log[1].op = "add_to_queue"
    /\ log[2].op = "play_track_immediately"
    /\ log[2].ret = Ok
    /\ queue = << >>

\* C14: when play() finds the sink empty (its one retry included) it
\* returns the no-file-loaded error and the manager passes it on without
\* reloading: state, every clock field, current_file, the current track
\* and the queue are as before the call; a sink with content gives Ok.
C14_PlayErrorChangesNothing ==
    [][CallStep("play") =>
          IF sinkEmpty
          THEN /\ ret' = <<"err", "No audio file loaded">>
               /\ UNCHANGED <<state, clockVars, current_file, sinkEmpty, sinkPaused>>
               /\ UNCHANGED <<current_track, queue>>
          ELSE ret' = Ok]_vars

\* play() refused on a Paused engine whose source has run out, with a
\* track loaded and another one waiting in the queue
C14_Witness ==
    /\ Called("play")
    /\ Last.ret = <<"err", "No audio file loaded">>
    /\ state = "Paused"
    /\ pause_time # None
    /\ current_file # None
    /\ current_track # None
    /\ queue # << >>

\* C19: add_to_queue(t) appends t at the tail, keeping the order of the
\* entries already there and allowing duplicates; add_to_queue, get_queue
\* and clear_queue leave the engine and the current track unchanged;
\* get_queue returns the queue and leaves it unchanged, clear_queue leaves
\* it empty.
C19_QueueFrame ==
    [][/\ CallStep("add_to_queue") =>
             /\ \E t \in Tracks : Last'.track = t.id /\ queue' = Append(queue, t)
             /\ UNCHANGED <<engineVars, current_track>>
       /\ CallStep("get_queue") =>
             /\ ret' = <<"queue", queue>>
             /\ UNCHANGED <<engineVars, current_track, queue>>
       /\ CallStep("clear_queue") =>
             /\ queue' = << >>
             /\ UNCHANGED <<engineVars, current_track>>]_vars

\* track A appended behind track B while B also plays as the current track
C19_Witness ==
    /\ Called("add_to_queue")
    /\ Last.track = TrackA.id
    /\ queue = <<TrackB, TrackA>>
    /\ state = "Playing"
    /\ current_track = Some(TrackB)

\* the same track queued twice
C19_WitnessDuplicate ==
    /\ Called("add_to_queue")
    /\ queue = <<TrackA, TrackA>>

\* C29: when play_next() pops a head track whose load fails, it returns
\* the error, the popped track is gone from the queue, the entries behind
\* it are kept in their order (the queue is not cleared) and the manager's
\* current track is unchanged.
C29_FailedNextKeepsRest ==
    [][(CallStep("play_next") /\ queue # << >>) =>
          IF ret'[1] = "err"
          THEN /\ queue' = Tail(queue)
               /\ current_track' = current_track
               /\ current_file' = current_file
          ELSE ret' = <<"ok", "true">>]_vars

\* play_next() failed on the head of a queue of three while another track
\* was the current one: the two entries behind the head remain, in order
C29_Witness ==
    /\ Called("play_next")
    /\ Last.ret[1] = "err"
    /\ queue = <<TrackB, TrackA>>
    /\ current_track = Some(TrackA)
    /\ state = "Playing"

----------------------------------------------------------------------------
(* SpecFifo: from a fresh manager, at most MaxLog calls of add_to_queue    *)
(* and play_next, all of them recorded.                                    *)

NextFifo ==
    \/ Len(log) < MaxLog /\ AddToQueueCall(MaxLog)
    \/ Len(log) < MaxLog /\ PlayNextCall(MaxLog)

SpecFifo == Init /\ [][NextFifo]_vars

IsAdd(e, t) == e.op = "add_to_queue" /\ e.track = t.id
\* play_next returned Ok(..): its load, if it made one, succeeded
IsNext(e) == e.op = "play_next" /\ e.ret[1] = "ok"
Loaded(e, t) == e.ret = <<"ok", "true">> /\ e.file = Some(t.file_path)

\* C1: queue FIFO law: from an empty queue, after add_to_queue(A) and
\* add_to_queue(B), the first play_next() loads A and returns true, the
\* second loads B and returns true, the third returns false and loads
\* nothing.
C1_QueueFifoLaw ==
    \A a, b \in Tracks :
        (Len(log) >= 3 /\ IsAdd(log[1], a) /\ IsAdd(log[2], b) /\ IsNext(log[3])) =>
            /\ Loaded(log[3], a)
            /\ (Len(log) >= 4 /\ IsNext(log[4])) =>
                  /\ Loaded(log[4], b)
                  /\ (Len(log) >= 5 /\ IsNext(log[5])) =>
                        /\ log[5].ret = <<"ok", "false">>
                        /\ log[5].file = log[4].file

----------------------------------------------------------------------------
(* SpecControls: every call of the playback interface, set_volume          *)
(* included, issued within one second.                                     *)

NextControls ==
    \/ SetVolumeCall(1)
    \/ SetSpeedCall(1)
    \/ GetStatusCall(1)
    \/ PlayTrackImmediatelyCall(1)
    \/ PlayCall(1)
    \/ PauseCall(1)
    \/ StopCall(1)
    \/ SeekCall(1)
    \/ SourceEnds

SpecControls == Init /\ [][NextControls]_vars

\* C9: set_volume and set_speed take every input and store it clamped:
\* volume is min(max(v, 0.0), 1.0), speed is min(max(s, 0.25), 4.0); so
\* 0 <= volume <= 1 and 0.25 <= speed <= 4.0 in every reachable state, and
\* get_status reads the stored values back.
C9_ClampedControls ==
    /\ Called("set_volume") =>
          /\ Last.ret = <<"unit">>
          /\ volume = (IF Last.num < 0 THEN 0 ELSE IF Last.num > 100 THEN 100 ELSE Last.num)
    /\ Called("set_speed") =>
          /\ Last.ret = <<"unit">>
          /\ speed = (IF Last.num < 25 THEN 25 ELSE IF Last.num > 400 THEN 400 ELSE Last.num)
    /\ 0 <= volume /\ volume <= 100
    /\ 25 <= speed /\ speed <= 400
    /\ Called("get_status") => (ret[2].volume = volume /\ ret[2].speed = speed)

\* set_volume(-0.5) stored as 0.0 on a Playing engine whose speed was
\* clamped to 4.0 before
C9_Witness ==
    /\ Called("set_volume")
    /\ Last.num = -50
    /\ volume = 0
    /\ speed = 400
    /\ state = "Playing"

----------------------------------------------------------------------------
(* SpecChannel: the channel dispatch of lib.rs. Caller threads take the     *)
(* sender from AUDIO_SENDER (the first one creating the audio thread), send *)
(* a command with its own response channel and block on the response; the   *)
(* audio thread creates the manager, then applies the commands one by one.  *)

MaxSent == 3

\* the commands a caller sends: LoadFile, Play, Pause, Seek(-1.0), Seek(1.5)
CommandInputs ==
    {[cmd |-> "LoadFile", num |-> 0], [cmd |-> "Play", num |-> 0],
     [cmd |-> "Pause", num |-> 0]} \cup
    {[cmd |-> "Seek", num |-> p] : p \in SeekInputs}

Command(c, t) == [cmd |-> c.cmd, num |-> c.num, caller |-> t]

\* a get_or_init that does not keep a second thread out of the initializer
GetOrInitBegin_NoExclusion(t) ==
    /\ pc[t] = "idle"
    /\ AUDIO_SENDER \in {"unset", "initializing"}
    /\ Len(sent) < MaxSent
    /\ AUDIO_SENDER' = "initializing"
    /\ pc' = [pc EXCEPT ![t] = "init"]
    /\ UNCHANGED <<engineVars, managerVars, player, now, ret, log, stepVars, managers,
                   ranOn, receiver, sent, applied, responses, spawned,
                   threadLocalVars>>

\* get_audio_sender on an unset AUDIO_SENDER: OnceLock::get_or_init lets one
\* thread into the initializer; a thread that finds it running waits
GetOrInitBegin(t) ==
    /\ pc[t] = "idle"
    /\ AUDIO_SENDER = "unset"
    /\ Len(sent) < MaxSent
    /\ AUDIO_SENDER' = "initializing"
    /\ pc' = [pc EXCEPT ![t] = "init"]
    /\ UNCHANGED <<engineVars, managerVars, player, now, ret, log, stepVars, managers,
                   ranOn, receiver, sent, applied, responses, spawned,
                   threadLocalVars>>

\* init_audio_thread, run inside get_or_init: the channel is created, the
\* audio thread spawned and the sender stored
init_audio_thread(t) ==
    /\ pc[t] = "init"
    /\ spawned' = spawned + 1
    /\ AUDIO_SENDER' = "set"
    /\ pc' = [pc EXCEPT ![t] = "idle", ![AudioThread] = "start"]
    /\ UNCHANGED <<engineVars, managerVars, player, now, ret, log, stepVars, managers,
                   ranOn, receiver, sent, applied, responses, threadLocalVars>>

\* a command function: sender.send(command), then response_receiver.recv().
\* A send to a receiver already dropped fails and changes nothing.
Send(t, c) ==
    /\ pc[t] = "idle"
    /\ AUDIO_SENDER = "set"
    /\ pc[AudioThread] # "dead"
    /\ receiver' = Append(receiver, Command(c, t))
    /\ pc' = [pc EXCEPT ![t] = "recv"]
    /\ UNCHANGED <<engineVars, managerVars, player, now, ret, log, stepVars, managers,
                   ranOn, AUDIO_SENDER, applied, responses, spawned,
                   threadLocalVars>>

\* a send that is entered in the history of sent commands
CallerSend(t, c) ==
    /\ Len(sent) < MaxSent
    /\ Send(t, c)
    /\ sent' = Append(sent, Command(c, t))

\* a send of which no history is kept
CallerSendUnrecorded(t, c) ==
    /\ Send(t, c)
    /\ UNCHANGED sent

\* response_receiver.recv() returns
CallerRecv(t) ==
    /\ pc[t] = "recv"
    /\ responses[t] # None
    /\ responses' = [responses EXCEPT ![t] = None]
    /\ pc' = [pc EXCEPT ![t] = "idle"]
    /\ UNCHANGED <<engineVars, managerVars, player, now, ret, log, stepVars, managers,
                   ranOn, AUDIO_SENDER, receiver, sent, applied, spawned,
                   threadLocalVars>>

\* an audio thread that ends on a failed AudioManager::new while the
\* receiver and the commands waiting in it stay alive
AudioStart_KeepsReceiver(ok) ==
    /\ pc[AudioThread] = "start"
    /\ IF ok
       THEN /\ managers' = managers + 1
            /\ pc' = [pc EXCEPT ![AudioThread] = "loop"]
       ELSE /\ pc' = [pc EXCEPT ![AudioThread] = "dead"]
            /\ UNCHANGED managers
    /\ UNCHANGED <<engineVars, managerVars, player, now, ret, log, stepVars, ranOn,
                   AUDIO_SENDER, receiver, responses, sent, applied, spawned,
                   threadLocalVars>>

\* the audio thread's start: AudioManager::new succeeds and the loop is
\* entered, or fails and the thread returns, dropping the receiver and with
\* it the response sender of every command already waiting
AudioStart(ok) ==
    /\ pc[AudioThread] = "start"
    /\ IF ok
       THEN /\ managers' = managers + 1
            /\ pc' = [pc EXCEPT ![AudioThread] = "loop"]
            /\ UNCHANGED <<receiver, responses>>
       ELSE /\ pc' = [pc EXCEPT ![AudioThread] = "dead"]
            /\ receiver' = << >>
            /\ responses' =
                  [t \in Callers |->
                     IF \E i \in 1..Len(receiver) : receiver[i].caller = t
                     THEN Some(<<"err", "Failed to receive response">>)
                     ELSE responses[t]]
            /\ UNCHANGED managers
    /\ UNCHANGED <<engineVars, managerVars, player, now, ret, log, stepVars, ranOn,
                   AUDIO_SENDER, sent, applied, spawned, threadLocalVars>>

\* the LoadFile arm: stop(), then play_track_immediately, then play()
LoadFileCommand(track, outcome) ==
    IF outcome = "ok"
    THEN /\ sinkEmpty' = FALSE
         /\ sinkPaused' = FALSE
         /\ current_file' = Some(track.file_path)
         /\ state' = "Playing"
         /\ start_time' = Some(now)
         /\ pause_time' = None
         /\ paused_duration' = 0
         /\ seek_offset' = 0
         /\ current_track' = Some(track)
         /\ queue' = << >>
         /\ ret' = Ok
         /\ UNCHANGED <<volume, speed>>
    ELSE /\ EngineStop
         /\ ret' = LoadResult(track.file_path, outcome)
         /\ UNCHANGED managerVars

\* the manager call of one arm of the command loop
ApplyCommand(c) ==
    \/ c.cmd = "LoadFile" /\ \E o \in LoadOutcomes : LoadFileCommand(TrackA, o)
    \/ c.cmd = "Play" /\ Play
    \/ c.cmd = "Pause" /\ Pause
    \/ c.cmd = "Seek" /\ \E n \in TrySeekOutcomes, f \in FallbackOutcomes :
          /\ n = "ok" => f = "ok"
          /\ f = "resume_empty" => state = "Playing"
          /\ Seek(c.num, n, f)

\* a loop that takes the newest command of the channel first
AudioApply_TakesNewest(window) ==
    /\ pc[AudioThread] = "loop"
    /\ receiver # << >>
    /\ LET c == receiver[Len(receiver)] IN
          /\ ApplyCommand(c)
          /\ applied' = LastN(Append(applied, c), window)
    /\ receiver' = SubSeq(receiver, 1, Len(receiver) - 1)
    /\ ranOn' = ranOn \cup {AudioThread}
    /\ pc' = [pc EXCEPT ![AudioThread] = "reply"]
    /\ UNCHANGED <<player, now, log, stepVars, managers, AUDIO_SENDER, sent, responses,
                   spawned, threadLocalVars>>

\* `for command in receiver`: the oldest command is taken and its arm run;
\* the last `window` commands applied are kept on record
AudioApply(window) ==
    /\ pc[AudioThread] = "loop"
    /\ receiver # << >>
    /\ LET c == Head(receiver) IN
          /\ ApplyCommand(c)
          /\ applied' = LastN(Append(applied, c), window)
    /\ receiver' = Tail(receiver)
    /\ ranOn' = ranOn \cup {AudioThread}
    /\ pc' = [pc EXCEPT ![AudioThread] = "reply"]
    /\ UNCHANGED <<player, now, log, stepVars, managers, AUDIO_SENDER, sent, responses,
                   spawned, threadLocalVars>>

\* what the arm sends back: the manager's result, Ok(()) where it has none
Response(c) == IF c.cmd = "Pause" THEN Ok ELSE ret

\* response.send(result), the last statement of the arm
AudioReply ==
    /\ pc[AudioThread] = "reply"
    /\ LET c == applied[Len(applied)] IN
          responses' = [responses EXCEPT ![c.caller] = Some(Response(c))]
    /\ pc' = [pc EXCEPT ![AudioThread] = "loop"]
    /\ UNCHANGED <<engineVars, managerVars, player, now, ret, log, stepVars, managers,
                   ranOn, AUDIO_SENDER, receiver, sent, applied, spawned,
                   threadLocalVars>>

NextChannel ==
    \/ \E t \in Callers : GetOrInitBegin(t)
    \/ \E t \in Callers : init_audio_thread(t)
    \/ \E t \in Callers, c \in CommandInputs : CallerSend(t, c)
    \/ \E t \in Callers : CallerRecv(t)
    \/ \E ok \in BOOLEAN : AudioStart(ok)
    \/ AudioApply(MaxSent)
    \/ AudioReply

SpecChannel == Init /\ [][NextChannel]_vars

\* C15: commands sent on the dispatch channel are applied to the manager
\* one at a time in exactly the order they were enqueued, none reordered,
\* dropped or merged (two Seek commands in a row both run, the second after
\* the first), and a command's reply is sent only after the command has
\* been applied in full.
C15_ChannelOrder ==
    /\ [](applied = SubSeq(sent, 1, Len(applied)))
    /\ [](managers = 1 => sent = applied \o receiver)
    /\ [][/\ Len(applied') <= Len(applied) + 1
          /\ \A t \in Callers :
                (responses'[t] # responses[t] /\ responses'[t] # None
                    /\ pc'[AudioThread] # "dead") =>
                   /\ pc[AudioThread] = "reply"
                   /\ applied # << >>
                   /\ applied[Len(applied)].caller = t
                   /\ responses'[t] = Some(Response(applied[Len(applied)]))
                   /\ UNCHANGED <<engineVars, managerVars, applied>>]_vars

\* two callers had a Seek each in flight at once: Seek(-1.0) of t1 was
\* applied and answered, Seek(1.5) of t2 was applied after it and its reply
\* is still to be sent
C15_Witness ==
    /\ Len(applied) = 3
    /\ applied[2] = [cmd |-> "Seek", num |-> -100, caller |-> "t1"]
    /\ applied[3] = [cmd |-> "Seek", num |-> 150, caller |-> "t2"]
    /\ pc["t1"] = "recv"
    /\ responses["t1"] = Some(Ok)
    /\ pc["t2"] = "recv"
    /\ responses["t2"] = None
    /\ pc[AudioThread] = "reply"
    /\ ret = Ok
    /\ seek_offset = 1

\* C16: in the channel dispatch at most one audio thread and one
\* AudioManager are ever created, also when several caller threads make
\* their first audio call at the same time, and every operation on the
\* manager and its engine runs on that one thread.
C16_SingleAudioThread ==
    /\ [](spawned <= 1 /\ managers <= spawned /\ ranOn \subseteq {AudioThread})
    /\ [][<<engineVars, managerVars>>' # <<engineVars, managerVars>> =>
             /\ pc[AudioThread] = "loop"
             /\ pc'[AudioThread] = "reply"
             /\ managers = 1]_vars

\* both callers made their first call while the sender was being set up:
\* the first two commands come from different callers and both have run
C16_Witness ==
    /\ spawned = 1
    /\ managers = 1
    /\ Len(applied) >= 2
    /\ sent[1].caller # sent[2].caller
    /\ ranOn = {AudioThread}
    /\ state = "Playing"

\* a second caller arrives while the first is inside the initializer
C16_WitnessConcurrent ==
    /\ AUDIO_SENDER = "initializing"
    /\ pc["t1"] = "init"
    /\ pc["t2"] = "idle"
    /\ spawned = 0

\* SpecChannelFair: the channel dispatch with callers that go on sending
\* commands without end (no history of them is kept) and threads that keep
\* running: the audio thread, once spawned, is scheduled until it blocks
\* on an empty channel or returns, and a caller whose response has arrived
\* returns from recv().
NextChannelFair ==
    \/ \E t \in Callers : GetOrInitBegin(t)
    \/ \E t \in Callers : init_audio_thread(t)
    \/ \E t \in Callers, c \in CommandInputs : CallerSendUnrecorded(t, c)
    \/ \E t \in Callers : CallerRecv(t)
    \/ \E ok \in BOOLEAN : AudioStart(ok)
    \/ AudioApply(1)
    \/ AudioReply

SpecChannelFair ==
    /\ Init
    /\ [][NextChannelFair]_vars
    /\ WF_vars(\E ok \in BOOLEAN : AudioStart(ok))
    /\ WF_vars(AudioApply(1))
    /\ WF_vars(AudioReply)
    /\ \A t \in Callers : WF_vars(CallerRecv(t))

\* C24: every command a caller sends through the dispatch channel
\* eventually yields a result to that caller, the command's reply or a
\* receive error; no caller blocks forever in recv(), also when
\* AudioManager::new fails on the audio thread and the thread exits, and
\* also for commands enqueued before that exit.
C24_EveryCommandAnswered ==
    \A t \in Callers :
        /\ (pc[t] = "recv") ~> (responses[t] # None)
        /\ (pc[t] = "recv") ~> (pc[t] = "idle")

\* both callers had a command waiting when the audio thread gave up on
\* creating the manager; both were handed the receive error
C24_Witness ==
    /\ pc[AudioThread] = "dead"
    /\ managers = 0
    /\ applied = << >>
    /\ \A t \in Callers :
          /\ pc[t] = "recv"
          /\ responses[t] = Some(<<"err", "Failed to receive response">>)

----------------------------------------------------------------------------
(* SpecThreadLocal: the thread-local dispatch of lib_clean.rs. Any caller  *)
(* thread may enter with_audio_manager; each call takes the global mutex,  *)
(* decides whether this thread owns the manager, runs the closure on it    *)
(* and returns, which releases the mutex.                                  *)

\* let _lock = AUDIO_COMMAND_MUTEX.lock().unwrap()
WithAudioManagerLock(t) ==
    /\ pc[t] = "idle"
    /\ AUDIO_COMMAND_MUTEX = None
    /\ AUDIO_COMMAND_MUTEX' = Some(t)
    /\ pc' = [pc EXCEPT ![t] = "locked"]
    /\ UNCHANGED <<engineVars, managerVars, player, now, ret, log, stepVars, managers,
                   ranOn, channelVars, PRIMARY_AUDIO_THREAD, AUDIO_MANAGER>>

\* a check that lets every thread create a manager of its own
WithAudioManagerEnter_NoPrimaryCheck(t, ok) ==
    /\ pc[t] = "locked"
    /\ ok
    /\ PRIMARY_AUDIO_THREAD' =
          IF PRIMARY_AUDIO_THREAD = None THEN Some(t) ELSE PRIMARY_AUDIO_THREAD
    /\ AUDIO_MANAGER' = [AUDIO_MANAGER EXCEPT ![t] = TRUE]
    /\ managers' = IF AUDIO_MANAGER[t] THEN managers ELSE managers + 1
    /\ pc' = [pc EXCEPT ![t] = "run"]
    /\ UNCHANGED <<engineVars, managerVars, player, now, ret, log, stepVars, ranOn,
                   channelVars, AUDIO_COMMAND_MUTEX>>

\* with_audio_manager between the lock and the closure: create the manager,
\* reuse it, or reject the call; a return drops _lock
WithAudioManagerEnter(t, ok) ==
    /\ pc[t] = "locked"
    /\ LET should_create == ~AUDIO_MANAGER[t] IN
       IF should_create
       THEN IF PRIMARY_AUDIO_THREAD = None
            THEN \* PRIMARY_AUDIO_THREAD.set(current_thread).is_ok()
                 /\ PRIMARY_AUDIO_THREAD' = Some(t)
                 /\ IF ok
                    THEN /\ AUDIO_MANAGER' = [AUDIO_MANAGER EXCEPT ![t] = TRUE]
                         /\ managers' = managers + 1
                         /\ pc' = [pc EXCEPT ![t] = "run"]
                         /\ UNCHANGED <<ret, AUDIO_COMMAND_MUTEX>>
                    ELSE \* AudioManager::new failed: `?` returns the error
                         /\ ret' = <<"err", "Failed to initialize audio manager">>
                         /\ AUDIO_COMMAND_MUTEX' = None
                         /\ pc' = [pc EXCEPT ![t] = "idle"]
                         /\ UNCHANGED <<AUDIO_MANAGER, managers>>
            ELSE /\ ok
                 /\ ret' = <<"err", "Audio manager already exists, rejecting operation">>
                 /\ AUDIO_COMMAND_MUTEX' = None
                 /\ pc' = [pc EXCEPT ![t] = "idle"]
                 /\ UNCHANGED <<PRIMARY_AUDIO_THREAD, AUDIO_MANAGER, managers>>
       ELSE /\ ok
            /\ IF PRIMARY_AUDIO_THREAD # None /\ PRIMARY_AUDIO_THREAD # Some(t)
               THEN /\ ret' = <<"err", "Audio operations only allowed on primary thread">>
                    /\ AUDIO_COMMAND_MUTEX' = None
                    /\ pc' = [pc EXCEPT ![t] = "idle"]
               ELSE /\ pc' = [pc EXCEPT ![t] = "run"]
                    /\ UNCHANGED <<ret, AUDIO_COMMAND_MUTEX>>
            /\ UNCHANGED <<PRIMARY_AUDIO_THREAD, AUDIO_MANAGER, managers>>
    /\ UNCHANGED <<engineVars, managerVars, player, now, log, stepVars, ranOn, channelVars>>

\* the closures handed to with_audio_manager: one call of the manager
Closure ==
    \/ \E o \in LoadOutcomes : PlayTrackImmediately(TrackA, o)
    \/ Play
    \/ Pause
    \/ Stop
    \/ GetStatus

\* f(manager) on this thread's manager, then the return that drops _lock
WithAudioManagerRun(t) ==
    /\ pc[t] = "run"
    /\ Closure
    /\ ranOn' = ranOn \cup {t}
    /\ AUDIO_COMMAND_MUTEX' = None
    /\ pc' = [pc EXCEPT ![t] = "idle"]
    /\ UNCHANGED <<log, stepVars, managers, channelVars, PRIMARY_AUDIO_THREAD, AUDIO_MANAGER>>

NextThreadLocal ==
    \/ \E t \in Callers : WithAudioManagerLock(t)
    \/ \E t \in Callers, ok \in BOOLEAN : WithAudioManagerEnter(t, ok)
    \/ \E t \in Callers : WithAudioManagerRun(t)

SpecThreadLocal == Init /\ [][NextThreadLocal]_vars

\* the call of thread t is turned away
Rejected(t) ==
    /\ pc[t] = "locked"
    /\ pc'[t] = "idle"
    /\ PRIMARY_AUDIO_THREAD # None
    /\ PRIMARY_AUDIO_THREAD # Some(t)

\* C17: in the thread-local dispatch the closure only ever runs on the
\* primary thread (the first thread that created the manager) and with the
\* global command mutex held; a call from any other thread returns an error
\* without creating a second manager and without running the closure.
C17_PrimaryThreadOnly ==
    /\ [](/\ managers <= 1
          /\ \A t \in Callers :
                (t \in ranOn \/ AUDIO_MANAGER[t] \/ pc[t] = "run") =>
                    (PRIMARY_AUDIO_THREAD = Some(t) /\ managers = 1)
          /\ \A t \in Callers :
                pc[t] # "idle" => AUDIO_COMMAND_MUTEX = Some(t))
    /\ [][/\ <<engineVars, managerVars, ranOn>>' # <<engineVars, managerVars, ranOn>> =>
                \E t \in Callers :
                    /\ pc[t] = "run"
                    /\ AUDIO_COMMAND_MUTEX = Some(t)
                    /\ PRIMARY_AUDIO_THREAD = Some(t)
          /\ \A t \in Callers :
                (pc[t] = "locked" /\ PRIMARY_AUDIO_THREAD # None
                    /\ PRIMARY_AUDIO_THREAD # Some(t)) =>
                   /\ pc'[t] \in {"locked", "idle"}
                   /\ Rejected(t) =>
                        /\ ret'[1] = "err"
                        /\ UNCHANGED <<engineVars, managerVars, managers, ranOn,
                                       AUDIO_MANAGER, PRIMARY_AUDIO_THREAD>>]_vars

\* t1 created the manager and started playback on it; t2 then called and
\* was turned away
C17_Witness ==
    /\ PRIMARY_AUDIO_THREAD = Some("t1")
    /\ ranOn = {"t1"}
    /\ managers = 1
    /\ state = "Playing"
    /\ ret = <<"err", "Audio manager already exists, rejecting operation">>
    /\ pc["t2"] = "idle"
    /\ AUDIO_COMMAND_MUTEX = None

\* the answers with which with_audio_manager turns a thread away
WrongThreadErrors ==
    {<<"err", "Audio manager already exists, rejecting operation">>,
     <<"err", "Audio operations only allowed on primary thread">>}

\* C30: a call of with_audio_manager made on the primary thread is never
\* rejected with the wrong-thread error: if the first creation of the
\* manager failed on the thread that claimed PRIMARY_AUDIO_THREAD, a later
\* call on that thread tries the creation again.
C30_PrimaryThreadRetries ==
    [][\A t \in Callers :
          (pc[t] = "locked" /\ PRIMARY_AUDIO_THREAD = Some(t) /\ pc'[t] # pc[t]) =>
             /\ ~(pc'[t] = "idle" /\ ret' \in WrongThreadErrors)
             /\ ~AUDIO_MANAGER[t] =>
                   (AUDIO_MANAGER'[t] \/ ret' = <<"err", "Failed to initialize audio manager">>)]_vars

----------------------------------------------------------------------------
(* AudioEngine::load_file step by step: the wait for the appended source   *)
(* to show in the sink                                                      *)

max_attempts == 100

\* a confirmation poll that gives up one round late
LoadFilePoll_OneMore ==
    /\ loadPc = "poll"
    /\ polls' = polls + 1
    /\ IF ~sinkEmpty
       THEN /\ LoadFile(loadPath, "ok")
            /\ ret' = LoadResult(loadPath, "ok")
            /\ loadPc' = "idle"
       ELSE IF attempts > max_attempts
       THEN /\ LoadFile(loadPath, "timeout")
            /\ ret' = LoadResult(loadPath, "timeout")
            /\ loadPc' = "idle"
       ELSE /\ loadPc' = "sleep"
            /\ UNCHANGED <<engineVars, ret>>
    /\ UNCHANGED <<managerVars, player, now, log, gateVars, lockVars,
                   loadPath, attempts>>

\* load_file from its entry to the loop: the sink is stopped and drained,
\* the file opened and decoded, the source appended and attempts set to 0;
\* a file that does not open or decode returns the error at once
LoadFileBegin(path, outcome) ==
    /\ loadPc = "idle"
    /\ IF outcome = "ok"
       THEN /\ sinkEmpty' \in BOOLEAN
            /\ loadPc' = "poll"
            /\ loadPath' = path
            /\ attempts' = 0
            /\ polls' = 0
            /\ UNCHANGED <<state, current_file, sinkPaused, volume, speed,
                           clockVars, ret>>
       ELSE /\ LoadFile(path, outcome)
            /\ ret' = LoadResult(path, outcome)
            /\ UNCHANGED loadVars
    /\ UNCHANGED <<managerVars, player, now, log, gateVars, lockVars>>

\* one pass of the loop down to the test of attempts: sink.empty() is read;
\* a sink with content breaks out to the state update and Ok(()), an empty
\* one returns the error once attempts has reached max_attempts
LoadFilePoll ==
    /\ loadPc = "poll"
    /\ polls' = polls + 1
    /\ IF ~sinkEmpty
       THEN /\ LoadFile(loadPath, "ok")
            /\ ret' = LoadResult(loadPath, "ok")
            /\ loadPc' = "idle"
       ELSE IF attempts >= max_attempts
       THEN /\ LoadFile(loadPath, "timeout")
            /\ ret' = LoadResult(loadPath, "timeout")
            /\ loadPc' = "idle"
       ELSE /\ loadPc' = "sleep"
            /\ UNCHANGED <<engineVars, ret>>
    /\ UNCHANGED <<managerVars, player, now, log, gateVars, lockVars,
                   loadPath, attempts>>

\* the rest of the pass: thread::sleep of 5 ms, then attempts += 1
LoadFileSleep ==
    /\ loadPc = "sleep"
    /\ attempts' = attempts + 1
    /\ loadPc' = "poll"
    /\ UNCHANGED <<engineVars, managerVars, player, now, ret, log, gateVars,
                   lockVars, loadPath, polls>>

\* the mixer takes up the appended source while load_file waits
SinkTakesSource ==
    /\ loadPc # "idle"
    /\ sinkEmpty
    /\ sinkEmpty' = FALSE
    /\ UNCHANGED <<state, current_file, sinkPaused, volume, speed, clockVars,
                   managerVars, player, now, ret, log, dispatchVars>>

NextLoadFile ==
    \/ \E t \in Tracks, o \in LoadOutcomes \ {"timeout"} :
          LoadFileBegin(t.file_path, o)
    \/ LoadFilePoll
    \/ LoadFileSleep
    \/ SinkTakesSource
    \/ SourceEnds

\* the calling thread keeps running: a poll or a sleep that is due happens
SpecLoadFile ==
    Init /\ [][NextLoadFile]_vars /\ WF_vars(LoadFilePoll) /\ WF_vars(LoadFileSleep)

\* the step reads sink.empty() in the confirmation loop
PollStep == polls' = polls + 1

\* C22: load_file's wait for the sink always ends: the sink is polled at
\* most max_attempts + 1 = 101 times with at most 100 sleeps between the
\* polls, the first poll that finds the sink non-empty returns Ok(()), the
\* poll that finds it empty after 100 sleeps returns the timeout error (and
\* only that one does), and a load that has begun to wait returns
C22_LoadWaitBounded ==
    /\ [](/\ polls <= max_attempts + 1
          /\ attempts <= max_attempts
          /\ loadPc = "poll" => polls = attempts
          /\ loadPc = "sleep" => polls = attempts + 1)
    /\ [][PollStep =>
            /\ ~sinkEmpty => (ret' = Ok /\ loadPc' = "idle"
                               /\ current_file' = Some(loadPath))
            /\ (sinkEmpty /\ polls = max_attempts) =>
                   (ret' = <<"err", "Failed to load audio into sink">>
                    /\ loadPc' = "idle")
            /\ (sinkEmpty /\ polls < max_attempts) =>
                   (loadPc' = "sleep" /\ ret' = ret)]_vars
    /\ (loadPc # "idle") ~> (loadPc = "idle")

\* the sink stayed empty through all 101 polls and the load timed out
C22_Witness ==
    /\ loadPc = "idle"
    /\ polls = max_attempts + 1
    /\ attempts = max_attempts
    /\ sinkEmpty
    /\ ret = <<"err", "Failed to load audio into sink">>

----------------------------------------------------------------------------
(* The field mutexes of AudioEngine when two threads call the engine with  *)
(* nothing serializing them.  A call writes the fields at its first step;   *)
(* the steps that follow are its lock() calls and the drops of its guards,  *)
(* in program order                                                         *)

Lock(m) == <<"lock", m>>
Drop(m) == <<"drop", m>>

RECURSIVE Locks(_)
Locks(ms) == IF ms = << >> THEN << >> ELSE <<Lock(Head(ms))>> \o Locks(Tail(ms))

\* guards declared in one scope are dropped at its end, the last one first
RECURSIVE Drops(_)
Drops(ms) ==
    IF ms = << >> THEN << >> ELSE Drops(Tail(ms)) \o <<Drop(Head(ms))>>

Scope(ms) == Locks(ms) \o Drops(ms)

\* play: the sink checked (twice when it is empty), sink.play(), then the
\* timing block and the state
PlayScript ==
    IF sinkEmpty
    THEN Scope(<<"sink">>) \o Scope(<<"sink">>)
    ELSE Scope(<<"sink">>) \o Scope(<<"sink">>)
         \o <<Lock("pause_time")>>
         \o (IF pause_time # None THEN Scope(<<"paused_duration">>) ELSE << >>)
         \o <<Lock("start_time"), Drop("start_time"), Drop("pause_time")>>
         \o Scope(<<"state">>)

PauseScript == Scope(<<"sink", "pause_time", "state">>)

StopScript ==
    <<Lock("sink")>>
    \o Scope(<<"start_time", "pause_time", "paused_duration", "seek_offset",
               "last_speed_change", "speed_adjusted_duration">>)
    \o <<Lock("state"), Drop("state"), Drop("sink")>>

\* load_file_with_offset, entered once the file has opened and decoded
LoadFileWithOffsetScript ==
    Scope(<<"sink", "seek_offset", "start_time", "pause_time",
            "paused_duration", "last_speed_change", "speed_adjusted_duration">>)

SeekFallbackScript(outcome) ==
    Scope(<<"current_file">>) \o Scope(<<"state">>) \o Scope(<<"sink">>)
    \o (IF outcome \in {"open_err", "decode_err"}
        THEN << >>
        ELSE LoadFileWithOffsetScript \o Scope(<<"sink">>)
             \o (IF outcome # "timeout" /\ state = "Playing"
                 THEN Scope(<<"sink", "state">>)
                 ELSE << >>))

SeekScript(native, fallback) ==
    Scope(<<"current_file">>)
    \o (IF current_file = None
        THEN << >>
        ELSE IF native = "ok"
        THEN Scope(<<"sink", "seek_offset", "start_time", "pause_time",
                     "paused_duration">>)
        ELSE Scope(<<"sink">>) \o SeekFallbackScript(fallback))

\* get_position: four guards held while get_speed locks speed
GetPositionScript ==
    Locks(<<"start_time", "pause_time", "paused_duration", "seek_offset">>)
    \o Scope(<<"speed">>)
    \o Drops(<<"start_time", "pause_time", "paused_duration", "seek_offset">>)

GetStatusScript ==
    Scope(<<"state">>) \o Scope(<<"current_file">>)
    \o Scope(<<"current_audio_info">>)
    \o GetPositionScript \o Scope(<<"volume">>) \o Scope(<<"speed">>)

\* thread t calls an engine operation whose lock and drop steps are `steps`
Enter(t, steps) ==
    /\ script[t] = << >>
    /\ script' = [script EXCEPT ![t] = steps]
    /\ UNCHANGED <<managerVars, player, now, ret, log, gateVars, loadVars, held>>

PlayEnter(t) == Enter(t, PlayScript) /\ EnginePlay
PauseEnter(t) == Enter(t, PauseScript) /\ EnginePause
StopEnter(t) == Enter(t, StopScript) /\ EngineStop
SeekEnter(t, native, fallback) ==
    Enter(t, SeekScript(native, fallback)) /\ EngineSeek(100, native, fallback)
GetPositionEnter(t) == Enter(t, GetPositionScript) /\ UNCHANGED engineVars
GetStatusEnter(t) == Enter(t, GetStatusScript) /\ UNCHANGED engineVars

\* mutex.lock(): returns once no thread holds the mutex
LockStep(t) ==
    /\ script[t] # << >>
    /\ Head(script[t])[1] = "lock"
    /\ held[Head(script[t])[2]] = "free"
    /\ held' = [held EXCEPT ![Head(script[t])[2]] = t]
    /\ script' = [script EXCEPT ![t] = Tail(script[t])]
    /\ UNCHANGED <<engineVars, managerVars, player, now, ret, log, gateVars,
                   loadVars>>

\* a MutexGuard goes out of scope
DropStep(t) ==
    /\ script[t] # << >>
    /\ Head(script[t])[1] = "drop"
    /\ held' = [held EXCEPT ![Head(script[t])[2]] = "free"]
    /\ script' = [script EXCEPT ![t] = Tail(script[t])]
    /\ UNCHANGED <<engineVars, managerVars, player, now, ret, log, gateVars,
                   loadVars>>

NextLocks ==
    \/ \E t \in Callers : PlayEnter(t)
    \/ \E t \in Callers : PauseEnter(t)
    \/ \E t \in Callers : StopEnter(t)
    \/ \E t \in Callers, n \in TrySeekOutcomes, f \in FallbackOutcomes :
          SeekEnter(t, n, f)
    \/ \E t \in Callers : GetPositionEnter(t)
    \/ \E t \in Callers : GetStatusEnter(t)
    \/ \E t \in Callers : LockStep(t)
    \/ \E t \in Callers : DropStep(t)

\* a file is loaded at normal speed; nothing has been called yet
InitLocks == InitLoaded /\ speed = 100 /\ ~sinkPaused

SpecLocks == InitLocks /\ [][NextLocks]_vars

\* thread t is in lock() on a mutex that a thread holds
Waits(t) ==
    /\ script[t] # << >>
    /\ Head(script[t])[1] = "lock"
    /\ held[Head(script[t])[2]] # "free"

\* C25: two threads calling the engine with no serialization never deadlock:
\* there is never a set of threads each waiting in lock() for a mutex held
\* by a thread of the set
C25_NoDeadlock ==
    \A S \in SUBSET Callers \ {{}} :
        ~ \A t \in S : Waits(t) /\ held[Head(script[t])[2]] \in S

============================================================================
